---- MODULE Spec2Model ----
(***************************************************************************)
(* DevBrief generator backend: the zod brief schema and its safeParse, the *)
(* batch dataset validator (validateDataset.ts), the generation pipeline   *)
(* (chat.ts) and the streaming entry point.                                *)
(***************************************************************************)
EXTENDS Integers, Sequences, FiniteSets, TLC

\* ---------------------------------------------------------------- bounds
\* fields of the reference brief that an input may differ in
MaxFaults == 2
\* briefs in a dataset file
MaxN == 3
\* briefs in one LLM response
MaxBriefs == 2
\* chunks delivered by one stream
MaxChunks == 3

\* ------------------------------------------------------------ JSON values
\* A JSON field value: t is its JSON type, s the string (or, for an array,
\* the type of its elements), l the elements of an array (each element is
\* identified by a number).
Str(s) == [t |-> "str", s |-> s, l |-> <<>>]
Num == [t |-> "num", s |-> "", l |-> <<>>]
Arr(et, l) == [t |-> "arr", s |-> et, l |-> l]
\* a key that JSON.parse did not produce
Undefined == [t |-> "undefined", s |-> "", l |-> <<>>]

EmptyF == [k \in {} |-> Num]
\* A JSON value at brief level: an object with fields f, or a non-object.
Obj(f) == [t |-> "obj", f |-> f]
NonObj(t) == [t |-> t, f |-> EmptyF]

\* ----------------------------------------------------------------- schema
ZString == [kind |-> "string", opts |-> {}, elem |-> "", min |-> 0]
ZEnum(opts) == [kind |-> "enum", opts |-> opts, elem |-> "", min |-> 0]
ZArray(elem, min) == [kind |-> "array", opts |-> {}, elem |-> elem, min |-> min]

briefSchema ==
  [level |-> ZEnum({"junior", "intermediate", "senior"}),
   domain |-> ZString,
   tech_focus |-> ZEnum({"frontend", "backend", "fullstack"}),
   stack |-> ZArray("str", 1),
   duration |-> ZString,
   brief |-> ZString,
   business_problem |-> ZString,
   target_users |-> ZString,
   goals |-> ZArray("str", 1),
   deliverables |-> ZArray("str", 1),
   assessment_criteria |-> ZString,
   company_size |-> ZEnum({"Startup", "SME", "Large Enterprise"}),
   complexity |-> ZEnum({"low", "medium", "high"})]

\* the briefSchema that chat.ts imports from ./schema/brief.js: the brief's
\* 13 fields and its nested list of user stories
schemaBrief ==
  [k \in DOMAIN briefSchema \cup {"user_stories"} |->
     IF k = "user_stories" THEN ZArray("obj", 0) ELSE briefSchema[k]]

\* FieldIssues with the arrays' .min(1) left out
FieldIssuesNoMin(d, f, k) ==
  IF k \notin DOMAIN f THEN {"invalid_type"}
  ELSE LET v == f[k] IN
    CASE d.kind = "string" -> IF v.t = "str" THEN {} ELSE {"invalid_type"}
      [] d.kind = "enum" ->
           IF v.t # "str" THEN {"invalid_type"}
           ELSE IF v.s \in d.opts THEN {} ELSE {"invalid_enum_value"}
      [] d.kind = "array" ->
           IF v.t # "arr" THEN {"invalid_type"}
           ELSE IF Len(v.l) > 0 /\ v.s # d.elem THEN {"invalid_element"} ELSE {}

\* the issue codes zod raises for field k of object fields f under type d
FieldIssues(d, f, k) ==
  IF k \notin DOMAIN f THEN {"invalid_type"}
  ELSE LET v == f[k] IN
    CASE d.kind = "string" -> IF v.t = "str" THEN {} ELSE {"invalid_type"}
      [] d.kind = "enum" ->
           IF v.t # "str" THEN {"invalid_type"}
           ELSE IF v.s \in d.opts THEN {} ELSE {"invalid_enum_value"}
      [] d.kind = "array" ->
           IF v.t # "arr" THEN {"invalid_type"}
           ELSE (IF Len(v.l) < d.min THEN {"too_small"} ELSE {})
                \cup (IF Len(v.l) > 0 /\ v.s # d.elem THEN {"invalid_element"} ELSE {})

\* schema.safeParse(v): every field of the schema is checked (no early
\* stop); on success data holds the schema's keys only (z.object strips
\* the keys it does not declare).
SafeParse(schema, v) ==
  IF v.t # "obj"
  THEN [success |-> FALSE, data |-> NonObj("null"),
        issues |-> {[path |-> "", code |-> "invalid_type"]}]
  ELSE LET issues == UNION {{[path |-> k, code |-> c] : c \in FieldIssues(schema[k], v.f, k)}
                            : k \in DOMAIN schema}
       IN IF issues = {}
          THEN [success |-> TRUE, data |-> Obj([k \in DOMAIN schema |-> v.f[k]]),
                issues |-> {}]
          ELSE [success |-> FALSE, data |-> NonObj("null"), issues |-> issues]

\* result.error.format(): the fields that carry an _errors entry
Format(issues) == {i.path : i \in issues} \ {""}

\* ----------------------------------------------------------------- inputs
\* the example brief of the system prompt
WellFormed ==
  [level |-> Str("junior"),
   domain |-> Str("FinTech"),
   tech_focus |-> Str("frontend"),
   stack |-> Arr("str", <<1, 2, 3>>),
   duration |-> Str("2 weeks"),
   brief |-> Str("text"),
   business_problem |-> Str("text"),
   target_users |-> Str("text"),
   goals |-> Arr("str", <<1, 2, 3>>),
   deliverables |-> Arr("str", <<1, 2, 3>>),
   assessment_criteria |-> Str("text"),
   company_size |-> Str("Startup"),
   complexity |-> Str("medium"),
   user_stories |-> Arr("obj", <<1, 2>>)]

\* the keys an input may differ in: the schema's, and one no schema declares
AllKeys == DOMAIN schemaBrief \cup {"notes"}

\* what a field of an input may hold instead of the reference value
Alts(k) ==
  IF k = "notes" THEN {Str("other")}
  ELSE IF k = "user_stories" THEN {Undefined, Arr("obj", <<>>), Arr("obj", <<2, 1>>)}
  ELSE CASE briefSchema[k].kind = "enum" -> {Undefined, Num, Str("expert"), Str("senior")}
         [] briefSchema[k].kind = "array" ->
              {Undefined, Arr("str", <<>>), Arr("num", <<1>>), Arr("str", <<2>>)}
         [] OTHER -> {Undefined, Num}

\* object fields b with key k set to a (or removed)
Edit(b, k, a) ==
  [x \in (IF a = Undefined THEN DOMAIN b \ {k} ELSE DOMAIN b \cup {k})
     |-> IF x = k THEN a ELSE b[x]]

RECURSIVE Edits(_, _)
\* every way of editing the keys S of b
Edits(b, S) ==
  IF S = {} THEN {b}
  ELSE LET k == CHOOSE x \in S : TRUE
       IN UNION {Edits(Edit(b, k, a), S \ {k}) : a \in Alts(k)}

Inputs ==
  {NonObj("num"), NonObj("null"), NonObj("arr")} \cup
  {Obj(f) : f \in UNION {Edits(WellFormed, S)
                         : S \in {S \in SUBSET AllKeys : Cardinality(S) <= MaxFaults}}}

\* --------------------------------------------------------------- state
\* one safeParse / parseSingleBrief call on its own
VARIABLES input, result, parsed
\* validateDataset.ts
VARIABLES dataset, vpc, vbriefs, index, validCount, errorCount, reports, vexit

\* chat.ts: the environment (env, llm), main's locals, the datastore's two
\* tables, the output file, and the history of the calls made (parsedCount,
\* log)
VARIABLES env, llm, cpc, jsonParsedResponse, briefs, parsedCount, done, embedding,
          briefId, briefsTable, storiesTable, insertionSummaries, outputFile, log, cexit

\* the streaming entry point: the API key, the stream the API gives, main's
\* position and locals, what went to stdout and stderr, the exit status
VARIABLES skey, stream, spc, pos, hadContent, written, noContentLogged, sexit

uvars == <<input, result, parsed>>
dvars == <<dataset, vpc, vbriefs, index, validCount, errorCount, reports, vexit>>
cenv == <<env, llm>>
cvars == <<env, llm, cpc, jsonParsedResponse, briefs, parsedCount, done, embedding,
           briefId, briefsTable, storiesTable, insertionSummaries, outputFile, log, cexit>>
svars == <<skey, stream, spc, pos, hadContent, written, noContentLogged, sexit>>
vars == <<uvars, dvars, cvars, svars>>

NoResult == [success |-> FALSE, data |-> NonObj("null"), issues |-> {}]

\* parseSingleBrief returning its argument instead of result.data
parseSingleBriefRaw(json) ==
  LET r == SafeParse(schemaBrief, json)
  IN IF ~r.success THEN [status |-> "threw", data |-> NonObj("null")]
     ELSE [status |-> "returned", data |-> json]

\* parseSingleBrief(json): the validated data, or a throw
parseSingleBrief(json) ==
  LET r == SafeParse(schemaBrief, json)
  IN IF ~r.success THEN [status |-> "threw", data |-> NonObj("null")]
     ELSE [status |-> "returned", data |-> r.data]

IdleSchema ==
  /\ input = NonObj("null")
  /\ result = [done |-> TRUE, r |-> NoResult]
  /\ parsed = [status |-> "idle", data |-> NonObj("null")]

IdleValidate ==
  /\ dataset = [kind |-> "none", isArray |-> FALSE, items |-> <<>>]
  /\ vpc = "idle"
  /\ vbriefs = <<>>
  /\ index = 0
  /\ validCount = 0
  /\ errorCount = 0
  /\ reports = <<>>
  /\ vexit = -1

NoJson == [isArray |-> FALSE, items |-> <<>>]
NoEmbedding == [of |-> EmptyF]
NoFile == [written |-> FALSE, content |-> NoJson]

ChatLocals ==
  /\ jsonParsedResponse = NoJson
  /\ briefs = <<>>
  /\ parsedCount = 0
  /\ done = 0
  /\ embedding = NoEmbedding
  /\ briefId = 0
  /\ briefsTable = <<>>
  /\ storiesTable = <<>>
  /\ insertionSummaries = <<>>
  /\ outputFile = NoFile
  /\ log = <<>>
  /\ cexit = -1

IdleChat ==
  /\ env = [supabase |-> FALSE, apiKey |-> FALSE]
  /\ llm = [kind |-> "none", isArray |-> FALSE, items |-> <<>>]
  /\ cpc = "idle"
  /\ ChatLocals

StreamLocals ==
  /\ pos = 0
  /\ hadContent = FALSE
  /\ written = 0
  /\ noContentLogged = FALSE
  /\ sexit = -1

IdleStream ==
  /\ skey = FALSE
  /\ stream = [createFails |-> FALSE, chunks |-> <<>>]
  /\ spc = "idle"
  /\ StreamLocals

InitSchema ==
  /\ input \in Inputs
  /\ result = [done |-> FALSE, r |-> NoResult]
  /\ parsed = [status |-> "none", data |-> NonObj("null")]
  /\ IdleValidate
  /\ IdleChat
  /\ IdleStream

\* one briefSchema.safeParse(brief) of the batch validator
ValidateBrief ==
  /\ ~result.done
  /\ result' = [done |-> TRUE, r |-> SafeParse(briefSchema, input)]
  /\ UNCHANGED <<input, parsed, dvars, cvars, svars>>

\* one parseSingleBrief(json) of the generation pipeline
ParseSingle ==
  /\ parsed.status = "none"
  /\ parsed' = parseSingleBrief(input)
  /\ UNCHANGED <<input, result, dvars, cvars, svars>>

NextSchema == ValidateBrief \/ ParseSingle

SpecSchema == InitSchema /\ [][NextSchema]_vars

\* ------------------------------------------------- claims on the schema
RequiredFields ==
  {"level", "domain", "tech_focus", "stack", "duration", "brief", "business_problem",
   "target_users", "goals", "deliverables", "assessment_criteria", "company_size",
   "complexity"}

EnumOf(k) ==
  CASE k = "level" -> {"junior", "intermediate", "senior"}
    [] k = "tech_focus" -> {"frontend", "backend", "fullstack"}
    [] k = "company_size" -> {"Startup", "SME", "Large Enterprise"}
    [] k = "complexity" -> {"low", "medium", "high"}

\* field k of object fields f violates the schema: missing, outside its
\* enum set, an empty array, or not of its type
Violates(f, k) ==
  \/ k \notin DOMAIN f
  \/ /\ k \in DOMAIN f
     /\ IF k \in {"level", "tech_focus", "company_size", "complexity"}
        THEN f[k].t # "str" \/ f[k].s \notin EnumOf(k)
        ELSE IF k \in {"stack", "goals", "deliverables"}
        THEN f[k].t # "arr" \/ f[k].l = <<>> \/ f[k].s # "str"
        ELSE f[k].t # "str"

\* C6: a brief object with a missing required field, an enum value outside
\* its set or an empty stack/goals/deliverables fails validation, and the
\* fields the formatted error names are exactly the violating fields.
C6_ErrorNamesOffendingFields ==
  (result.done /\ input.t = "obj") =>
     LET bad == {k \in RequiredFields : Violates(input.f, k)}
     IN /\ Format(result.r.issues) = bad
        /\ (bad # {}) <=> ~result.r.success

C6_Witness ==
  /\ result.done /\ input.t = "obj" /\ ~result.r.success
  /\ "level" \notin DOMAIN input.f
  /\ "goals" \in DOMAIN input.f /\ input.f["goals"] = Arr("str", <<>>)
  /\ Format(result.r.issues) = {"level", "goals"}

\* all required fields present, type-correct, within their enum sets, with
\* non-empty stack/goals/deliverables, and a list of user stories
WellFormedInput(v) ==
  /\ v.t = "obj"
  /\ \A k \in RequiredFields : ~Violates(v.f, k)
  /\ "user_stories" \in DOMAIN v.f
  /\ v.f["user_stories"].t = "arr"
  /\ v.f["user_stories"].l # <<>> => v.f["user_stories"].s = "obj"

SampleBriefs ==
  {Obj(WellFormed),
   Obj(Edit(WellFormed, "notes", Str("other"))),
   Obj(Edit(WellFormed, "level", Undefined)),
   Obj(Edit(WellFormed, "complexity", Str("expert"))),
   Obj(Edit(Edit(WellFormed, "goals", Arr("str", <<>>)), "domain", Undefined)),
   NonObj("num")}

RECURSIVE SeqsUpTo(_, _)
\* the sequences over S of length at most n
SeqsUpTo(S, n) ==
  IF n = 0 THEN {<<>>}
  ELSE LET shorter == SeqsUpTo(S, n - 1)
       IN shorter \cup {Append(q, x) : q \in {q \in shorter : Len(q) = n - 1}, x \in S}

\* what src/briefs_dataset.json may be: unreadable, not JSON, a JSON value
\* that is not an array, or an array of values
Datasets ==
  {[kind |-> k, isArray |-> FALSE, items |-> <<>>] : k \in {"unreadable", "malformed", "json"}}
  \cup {[kind |-> "json", isArray |-> TRUE, items |-> q] : q \in SeqsUpTo(SampleBriefs, MaxN)}

InitValidate ==
  /\ dataset \in Datasets
  /\ vpc = "read"
  /\ vbriefs = <<>>
  /\ index = 0
  /\ validCount = 0
  /\ errorCount = 0
  /\ reports = <<>>
  /\ vexit = -1
  /\ IdleSchema
  /\ IdleChat
  /\ IdleStream

\* readFileSync, JSON.parse and the Array.isArray check; a throw goes to the
\* catch, which exits with status 1
ReadDataset ==
  /\ vpc = "read"
  /\ IF dataset.kind = "json" /\ dataset.isArray
     THEN /\ vbriefs' = dataset.items
          /\ vpc' = "scan"
          /\ UNCHANGED vexit
     ELSE /\ vpc' = "exit"
          /\ vexit' = 1
          /\ UNCHANGED vbriefs
  /\ UNCHANGED <<dataset, index, validCount, errorCount, reports, uvars, cvars, svars>>

\* the failure report of the brief at 0-based position i, numbered from 0
FailureReportZeroBased(i, r) == [brief |-> i, fields |-> Format(r.issues)]

\* the failure report printed for the brief at 0-based position i
FailureReport(i, r) == [brief |-> i + 1, fields |-> Format(r.issues)]

\* one call of the forEach callback
ForEachBrief ==
  /\ vpc = "scan"
  /\ index < Len(vbriefs)
  /\ LET r == SafeParse(briefSchema, vbriefs[index + 1])
     IN IF r.success
        THEN /\ validCount' = validCount + 1
             /\ UNCHANGED <<errorCount, reports>>
        ELSE /\ errorCount' = errorCount + 1
             /\ reports' = Append(reports, FailureReport(index, r))
             /\ UNCHANGED validCount
  /\ index' = index + 1
  /\ UNCHANGED <<dataset, vpc, vbriefs, vexit, uvars, cvars, svars>>

\* the exit status that ignores the error count
ExitStatusZero(errors) == 0

\* the exit status after the scan
ExitStatus(errors) == IF errors > 0 THEN 1 ELSE 0

\* the summary after the forEach, and the end of the process
Summary ==
  /\ vpc = "scan"
  /\ index = Len(vbriefs)
  /\ vpc' = "exit"
  /\ vexit' = ExitStatus(errorCount)
  /\ UNCHANGED <<dataset, vbriefs, index, validCount, errorCount, reports, uvars, cvars, svars>>

NextValidate == ReadDataset \/ ForEachBrief \/ Summary

SpecValidate == InitValidate /\ [][NextValidate]_vars

\* ------------------------------------------ claims on validateDataset.ts
\* the 1-based positions of the briefs of q that fail the schema
InvalidPositions(q) ==
  {i \in 1..Len(q) : ~(q[i].t = "obj" /\ \A k \in RequiredFields : ~Violates(q[i].f, k))}

\* C1: after the scan of an array of N briefs of which K fail the schema,
\* errorCount = K, validCount = N - K, and one failure report was printed
\* per invalid brief, carrying its 1-based position.
C1_CountsMatch ==
  (vpc = "exit" /\ dataset.kind = "json" /\ dataset.isArray) =>
     LET N == Len(dataset.items)
         bad == InvalidPositions(dataset.items)
     IN /\ errorCount = Cardinality(bad)
        /\ validCount = N - Cardinality(bad)
        /\ validCount + errorCount = N
        /\ Len(reports) = Cardinality(bad)
        /\ {reports[j].brief : j \in 1..Len(reports)} = bad
        /\ \A j \in 1..Len(reports) - 1 : reports[j].brief < reports[j + 1].brief

C1_Witness ==
  /\ vpc = "exit"
  /\ Len(dataset.items) = 3
  /\ errorCount = 2
  /\ validCount = 1
  /\ Len(reports) = 2 /\ reports[1].brief = 1 /\ reports[2].brief = 3

\* C5: the scan validates every element whatever failed before, and the
\* process exits with status 1 exactly when a brief is invalid or the
\* dataset is unreadable, not JSON or not an array; otherwise status 0.
C5_ExitStatusDecidedAtEnd ==
  /\ (vpc = "exit") =>
        /\ vexit \in {0, 1}
        /\ vexit = 1 <=> \/ dataset.kind # "json"
                         \/ ~dataset.isArray
                         \/ InvalidPositions(dataset.items) # {}
        /\ (dataset.kind = "json" /\ dataset.isArray) =>
              index = Len(dataset.items) /\ validCount + errorCount = Len(dataset.items)
  /\ (vpc # "exit") => vexit = -1

C5_Witness ==
  /\ vpc = "exit" /\ vexit = 1
  /\ Len(dataset.items) = 3 /\ index = 3
  /\ InvalidPositions(dataset.items) = {1}
  /\ validCount = 2

\* ------------------------------------------------------------------ chat.ts
\* the values one element of the LLM's JSON may be
PipelineBriefs ==
  {Obj(WellFormed),
   Obj(Edit(WellFormed, "user_stories", Arr("obj", <<>>))),
   Obj(Edit(Edit(WellFormed, "notes", Str("other")), "user_stories", Arr("obj", <<2, 1>>))),
   Obj(Edit(WellFormed, "level", Undefined)),
   NonObj("num")}

\* what the LLM call may give: a network error, no output_text, text that
\* is not JSON, one JSON value, or a JSON array of values
Responses ==
  {[kind |-> k, isArray |-> FALSE, items |-> <<>>] : k \in {"error", "empty", "malformed"}}
  \cup {[kind |-> "json", isArray |-> FALSE, items |-> <<v>>] : v \in PipelineBriefs}
  \cup {[kind |-> "json", isArray |-> TRUE, items |-> q] : q \in SeqsUpTo(PipelineBriefs, MaxBriefs)}

\* the identifiers the datastore may generate
Ids == 1..(MaxBriefs + 1)

InitChat ==
  /\ env \in [supabase : BOOLEAN, apiKey : BOOLEAN]
  /\ llm \in Responses
  /\ cpc = "pipeline"
  /\ ChatLocals
  /\ IdleSchema
  /\ IdleValidate
  /\ IdleStream

\* main().catch: the error is logged and the process exits with status 1
Catch ==
  /\ cpc' = "exit"
  /\ cexit' = 1

\* await pipeline('feature-extraction', ...): the model loads, or the
\* promise rejects
LoadPipeline ==
  /\ cpc = "pipeline"
  /\ \E ok \in BOOLEAN :
       IF ok THEN cpc' = "clients" /\ UNCHANGED cexit ELSE Catch
  /\ UNCHANGED <<cenv, jsonParsedResponse, briefs, parsedCount, done, embedding, briefId,
                 briefsTable, storiesTable, insertionSummaries, outputFile, log, uvars, dvars, svars>>

\* getSupabaseClient() and getOpenAIClient(): each throws when its
\* environment variables are missing
GetClients ==
  /\ cpc = "clients"
  /\ IF env.supabase /\ env.apiKey
     THEN cpc' = "request" /\ UNCHANGED cexit
     ELSE Catch
  /\ UNCHANGED <<cenv, jsonParsedResponse, briefs, parsedCount, done, embedding, briefId,
                 briefsTable, storiesTable, insertionSummaries, outputFile, log, uvars, dvars, svars>>

\* getResponseFromOpenAI: the call, the check of output_text, JSON.parse
getResponseFromOpenAI(response) ==
  IF response.kind = "error" THEN [status |-> "threw", json |-> NoJson]
  ELSE IF response.kind = "empty" THEN [status |-> "threw", json |-> NoJson]
  ELSE IF response.kind = "malformed" THEN [status |-> "threw", json |-> NoJson]
  ELSE [status |-> "returned",
        json |-> [isArray |-> response.isArray, items |-> response.items]]

GetResponse ==
  /\ cpc = "request"
  /\ LET r == getResponseFromOpenAI(llm)
     IN IF r.status = "returned"
        THEN /\ jsonParsedResponse' = r.json
             /\ cpc' = "parse"
             /\ UNCHANGED cexit
        ELSE /\ Catch
             /\ UNCHANGED jsonParsedResponse
  /\ UNCHANGED <<cenv, briefs, parsedCount, done, embedding, briefId,
                 briefsTable, storiesTable, insertionSummaries, outputFile, log, uvars, dvars, svars>>

\* the positions of json's elements that parseSingleBrief throws on
Throwing(json) ==
  {i \in 1..Len(json.items) : parseSingleBrief(json.items[i]).status = "threw"}

\* parseBriefs leaving the invalid elements out instead of throwing
parseBriefsSkipInvalid(json) ==
  LET keep == {i \in 1..Len(json.items) : i \notin Throwing(json)}
      F[i \in 0..Len(json.items)] ==
        IF i = 0 THEN <<>>
        ELSE IF i \in keep THEN Append(F[i - 1], parseSingleBrief(json.items[i]).data)
        ELSE F[i - 1]
  IN [status |-> "returned", briefs |-> F[Len(json.items)], calls |-> Len(json.items)]

\* parseBriefs(json): parseSingleBrief on each element in order (on json
\* itself when it is no array); the first throw ends it. calls counts the
\* parseSingleBrief calls made.
parseBriefs(json) ==
  IF Throwing(json) # {}
  THEN [status |-> "threw", briefs |-> <<>>,
        calls |-> CHOOSE i \in Throwing(json) : \A j \in Throwing(json) : i <= j]
  ELSE [status |-> "returned",
        briefs |-> [i \in 1..Len(json.items) |-> parseSingleBrief(json.items[i]).data],
        calls |-> Len(json.items)]

\* the loop's next step once `finished` of `n` briefs are done, with the
\* output file written after the first brief
LoopNextWriteEarly(finished, n) == IF finished = 0 /\ n > 0 THEN "embed" ELSE "write"

\* for (const brief of briefs): the next brief, or the code after the loop
LoopNext(finished, n) == IF finished < n THEN "embed" ELSE "write"

ParseBriefs ==
  /\ cpc = "parse"
  /\ LET r == parseBriefs(jsonParsedResponse)
     IN /\ parsedCount' = r.calls
        /\ IF r.status = "returned"
           THEN /\ briefs' = r.briefs
                /\ cpc' = LoopNext(0, Len(r.briefs))
                /\ UNCHANGED cexit
           ELSE /\ Catch
                /\ UNCHANGED briefs
  /\ UNCHANGED <<cenv, jsonParsedResponse, done, embedding, briefId,
                 briefsTable, storiesTable, insertionSummaries, outputFile, log, uvars, dvars, svars>>

\* generateEmbedding(JSON.stringify(brief), ...): the vector of that text
generateEmbedding(brief) == [of |-> brief.f]

Event(op, n, ok) == [op |-> op, brief |-> n, ok |-> ok]

\* the embedding of the next brief, or a rejection
Embed ==
  /\ cpc = "embed"
  /\ \E ok \in BOOLEAN :
       /\ log' = Append(log, Event("embed", done + 1, ok))
       /\ IF ok
          THEN /\ embedding' = generateEmbedding(briefs[done + 1])
               /\ cpc' = "insertBrief"
               /\ UNCHANGED cexit
          ELSE /\ Catch
               /\ UNCHANGED embedding
  /\ UNCHANGED <<cenv, jsonParsedResponse, briefs, parsedCount, done, briefId,
                 briefsTable, storiesTable, insertionSummaries, outputFile, uvars, dvars, svars>>

\* the row insertBriefInDB builds for the 'briefs' table
briefRow(brief, emb) ==
  [level |-> brief.f["level"],
   domain |-> brief.f["domain"],
   tech_focus |-> brief.f["tech_focus"],
   stack |-> brief.f["stack"],
   duration |-> brief.f["duration"],
   brief |-> brief.f["brief"],
   business_problem |-> brief.f["business_problem"],
   target_users |-> brief.f["target_users"],
   goals |-> brief.f["goals"],
   deliverables |-> brief.f["deliverables"],
   assessment_criteria |-> brief.f["assessment_criteria"],
   company_size |-> brief.f["company_size"],
   complexity |-> brief.f["complexity"],
   embedding |-> emb]

\* insertBriefInDB going on to the user stories whatever the insert returned
AfterPrimaryInsertIgnoreError(error) == "insertStories"

\* if (error) throw ..., after the insert into 'briefs'
AfterPrimaryInsert(error) == IF error THEN "throw" ELSE "insertStories"

\* insertBriefInDB, first half: the insert into 'briefs' and its error check
InsertBriefRow ==
  /\ cpc = "insertBrief"
  /\ \E ok \in BOOLEAN :
       /\ log' = Append(log, Event("insertBrief", done + 1, ok))
       /\ IF ok
          THEN \E id \in Ids \ {briefsTable[j].id : j \in 1..Len(briefsTable)} :
                 /\ briefsTable' = Append(briefsTable,
                                           [id |-> id, row |-> briefRow(briefs[done + 1], embedding)])
                 /\ briefId' = id
          ELSE UNCHANGED <<briefsTable, briefId>>
       /\ IF AfterPrimaryInsert(~ok) = "throw"
          THEN Catch
          ELSE cpc' = "insertStories" /\ UNCHANGED cexit
  /\ UNCHANGED <<cenv, jsonParsedResponse, briefs, parsedCount, done, embedding,
                 storiesTable, insertionSummaries, outputFile, uvars, dvars, svars>>

\* the user-story rows numbered from 0
userStoryRowsZeroBased(id, stories) ==
  [j \in 1..Len(stories) |-> [brief_id |-> id, story_order |-> j - 1, story |-> stories[j]]]

\* brief.user_stories.map(...): one row per story, numbered from 1
userStoryRows(id, stories) ==
  [j \in 1..Len(stories) |-> [brief_id |-> id, story_order |-> j, story |-> stories[j]]]

\* insertBriefInDB and the loop going on whatever the user-story insert returned
AfterUserStoriesInsertIgnoreError(error) == "next"

\* if (userStoriesError) throw ..., after the insert into 'brief_user_stories'
AfterUserStoriesInsert(error) == IF error THEN "throw" ELSE "next"

\* insertBriefInDB, second half: the insert into 'brief_user_stories', its
\* error check, the summary returned and pushed, and the loop's next step
InsertUserStories ==
  /\ cpc = "insertStories"
  /\ LET rows == userStoryRows(briefId, briefs[done + 1].f["user_stories"].l)
     IN \E ok \in BOOLEAN :
          /\ log' = Append(log, Event("insertStories", done + 1, ok))
          /\ storiesTable' = IF ok THEN storiesTable \o rows ELSE storiesTable
          /\ IF AfterUserStoriesInsert(~ok) = "throw"
             THEN /\ Catch
                  /\ UNCHANGED <<insertionSummaries, done>>
             ELSE /\ insertionSummaries' =
                       Append(insertionSummaries,
                              [brief |-> briefId, userStoriesInserted |-> Len(rows)])
                  /\ done' = done + 1
                  /\ cpc' = LoopNext(done + 1, Len(briefs))
                  /\ UNCHANGED cexit
  /\ UNCHANGED <<cenv, jsonParsedResponse, briefs, parsedCount, embedding, briefId,
                 briefsTable, outputFile, uvars, dvars, svars>>

\* writeBriefsToFilepath(jsonParsedResponse), then main returns
WriteOutput ==
  /\ cpc = "write"
  /\ \E ok \in BOOLEAN :
       /\ log' = Append(log, Event("write", 0, ok))
       /\ IF ok
          THEN /\ outputFile' = [written |-> TRUE, content |-> jsonParsedResponse]
               /\ cpc' = "exit"
               /\ cexit' = 0
          ELSE /\ Catch
               /\ UNCHANGED outputFile
  /\ UNCHANGED <<cenv, jsonParsedResponse, briefs, parsedCount, done, embedding, briefId,
                 briefsTable, storiesTable, insertionSummaries, uvars, dvars, svars>>

NextChat ==
  \/ LoadPipeline
  \/ GetClients
  \/ GetResponse
  \/ ParseBriefs
  \/ Embed
  \/ InsertBriefRow
  \/ InsertUserStories
  \/ WriteOutput

SpecChat == InitChat /\ [][NextChat]_vars

\* ------------------------------------------------ streaming entry point
\* what one chunk's choices[0].delta.content may be: absent, the empty
\* string, a text fragment; "error" is the stream failing at that point
ChunkContents == {"absent", "empty", "text", "error"}

Streams ==
  {[createFails |-> c, chunks |-> q] : c \in BOOLEAN, q \in SeqsUpTo(ChunkContents, MaxChunks)}

InitStream ==
  /\ skey \in BOOLEAN
  /\ stream \in Streams
  /\ spc = "start"
  /\ StreamLocals
  /\ IdleSchema
  /\ IdleValidate
  /\ IdleChat

\* the API key check, the prompts and client.chat.completions.create
StreamStart ==
  /\ spc = "start"
  /\ IF ~skey \/ stream.createFails
     THEN spc' = "exit" /\ sexit' = 1
     ELSE spc' = "streaming" /\ UNCHANGED sexit
  /\ UNCHANGED <<skey, stream, pos, hadContent, written, noContentLogged, uvars, dvars, cvars>>

\* one round of for await (const chunk of stream)
StreamChunk ==
  /\ spc = "streaming"
  /\ pos < Len(stream.chunks)
  /\ pos' = pos + 1
  /\ LET content == stream.chunks[pos + 1]
     IN IF content = "error"
        THEN /\ spc' = "exit"
             /\ sexit' = 1
             /\ UNCHANGED <<hadContent, written>>
        ELSE IF content = "text"
        THEN /\ hadContent' = TRUE
             /\ written' = written + 1
             /\ UNCHANGED <<spc, sexit>>
        ELSE UNCHANGED <<spc, sexit, hadContent, written>>
  /\ UNCHANGED <<skey, stream, noContentLogged, uvars, dvars, cvars>>

\* after the loop: the no-content message, the end marker, main returns
StreamEnd ==
  /\ spc = "streaming"
  /\ pos = Len(stream.chunks)
  /\ noContentLogged' = ~hadContent
  /\ spc' = "exit"
  /\ sexit' = 0
  /\ UNCHANGED <<skey, stream, pos, hadContent, written, uvars, dvars, cvars>>

NextStream == StreamStart \/ StreamChunk \/ StreamEnd

SpecStream == InitStream /\ [][NextStream]_vars

\* -------------------------------------------------------- claims on chat.ts
\* the positions of the response's elements that fail the schema
InvalidBriefs == {i \in 1..Len(llm.items) : ~WellFormedInput(llm.items[i])}

\* the user-story rows of the brief with identifier id, in table order
StoriesOf(id) == SelectSeq(storiesTable, LAMBDA r : r.brief_id = id)

\* C2: a user-story insert for a brief is issued only after that brief's
\* primary insert completed without error; after a failed primary insert
\* none is issued for that brief.
C2_StoriesOnlyAfterPrimaryOk ==
  /\ \A p \in 1..Len(log) :
       log[p].op = "insertStories" =>
          \E q \in 1..(p - 1) : log[q] = Event("insertBrief", log[p].brief, TRUE)
  /\ \A q \in 1..Len(log) :
       (log[q].op = "insertBrief" /\ ~log[q].ok) =>
          /\ \A p \in 1..Len(log) : ~(log[p].op = "insertStories" /\ log[p].brief = log[q].brief)
          /\ cpc = "exit"
  /\ \A p \in 1..Len(storiesTable) :
       \E q \in 1..Len(briefsTable) : briefsTable[q].id = storiesTable[p].brief_id

C2_Witness ==
  /\ cpc = "exit"
  /\ Len(log) = 5
  /\ log[3] = Event("insertStories", 1, TRUE)
  /\ log[5] = Event("insertBrief", 2, FALSE)
  /\ Len(storiesTable) = 2

\* C3: when a brief of the parsed response fails the schema, the run ends
\* at the first such brief with status 1: nothing is embedded, inserted or
\* written, for the valid briefs before it either.
C3_AbortOnFirstInvalid ==
  (llm.kind = "json" /\ InvalidBriefs # {}) =>
     /\ log = <<>>
     /\ briefsTable = <<>>
     /\ storiesTable = <<>>
     /\ ~outputFile.written
     /\ cpc \in {"pipeline", "clients", "request", "parse", "exit"}
     /\ cpc = "exit" => cexit = 1
     /\ parsedCount > 0 =>
           /\ cpc = "exit"
           /\ parsedCount \in InvalidBriefs
           /\ \A i \in InvalidBriefs : parsedCount <= i

C3_Witness ==
  /\ cpc = "exit" /\ cexit = 1
  /\ Len(llm.items) = 2
  /\ InvalidBriefs = {2}
  /\ parsedCount = 2
  /\ log = <<>>

\* C4, chat.ts half: an empty output_text ends the run with status 1.
C4_EmptyOutputTextFails ==
  (llm.kind = "empty" /\ cpc = "exit") => cexit = 1

\* C4: a response without content ends the run as a failure in both entry
\* points: the pipeline on an empty output_text, the streaming entry point
\* on a stream that delivered no non-empty fragment.
C4_NoContentFails ==
  /\ C4_EmptyOutputTextFails
  /\ (spc = "exit" /\ skey /\ ~stream.createFails /\ pos = Len(stream.chunks)
        /\ \A j \in 1..Len(stream.chunks) : stream.chunks[j] \in {"absent", "empty"})
       => sexit = 1

\* C8: for each brief whose two inserts succeeded, 'briefs' holds exactly
\* one row with the identifier returned for it, 'brief_user_stories' holds
\* one row per user story with that brief_id and story_order 1..n in the
\* order of the brief's list, and userStoriesInserted = n.
C8_OneRowPerBriefAndStory ==
  /\ Len(briefsTable) \in {Len(insertionSummaries), Len(insertionSummaries) + 1}
  /\ \A j \in 1..Len(insertionSummaries) :
       LET id == insertionSummaries[j].brief
           stories == briefs[j].f["user_stories"].l
           rows == StoriesOf(id)
       IN /\ Cardinality({p \in 1..Len(briefsTable) : briefsTable[p].id = id}) = 1
          /\ briefsTable[j].id = id
          /\ Len(rows) = Len(stories)
          /\ \A k \in 1..Len(stories) :
               rows[k] = [brief_id |-> id, story_order |-> k, story |-> stories[k]]
          /\ insertionSummaries[j].userStoriesInserted = Len(stories)

C8_Witness ==
  /\ Len(insertionSummaries) = 2
  /\ insertionSummaries[1].brief = 3
  /\ insertionSummaries[2].brief = 1
  /\ insertionSummaries[2].userStoriesInserted = 2
  /\ briefs[2].f["user_stories"].l = <<2, 1>>
  /\ Len(storiesTable) = 4

\* C9: the calls are made strictly in sequence, brief by brief: embed,
\* insert into 'briefs', insert into 'brief_user_stories', each only after
\* all earlier ones succeeded; the output file is written last, after every
\* brief, and never in a run where an insert failed.
C9_SequentialThenWrite ==
  /\ \A p \in 1..Len(log) :
       /\ p < Len(log) => log[p].ok
       /\ IF log[p].op = "write"
          THEN p = 3 * Len(briefs) + 1 /\ done = Len(briefs)
          ELSE /\ log[p].brief = ((p - 1) \div 3) + 1
               /\ log[p].brief <= Len(briefs)
               /\ log[p].op = CASE (p - 1) % 3 = 0 -> "embed"
                                 [] (p - 1) % 3 = 1 -> "insertBrief"
                                 [] OTHER -> "insertStories"
  /\ outputFile.written =>
       /\ Len(log) = 3 * Len(briefs) + 1
       /\ \A p \in 1..Len(log) : log[p].ok
       /\ outputFile.content = [isArray |-> llm.isArray, items |-> llm.items]
  /\ (\E p \in 1..Len(log) : log[p].op \in {"insertBrief", "insertStories"} /\ ~log[p].ok)
       => ~outputFile.written

C9_Witness ==
  /\ outputFile.written
  /\ Len(briefs) = 2
  /\ Len(log) = 7
  /\ cexit = 0

\* C10: when an insert of brief i fails the run ends with status 1, nothing
\* is embedded or inserted afterwards, the rows of briefs 1..i-1 are still
\* in both tables, and after a failed user-story insert brief i's primary
\* row is still there, without user-story rows.
C10_FailureEndsRunRowsRemain ==
  \A p \in 1..Len(log) :
    (log[p].op \in {"insertBrief", "insertStories"} /\ ~log[p].ok) =>
       LET i == log[p].brief
       IN /\ p = Len(log)
          /\ cpc = "exit" /\ cexit = 1
          /\ ~outputFile.written
          /\ Len(insertionSummaries) = i - 1
          /\ \A j \in 1..(i - 1) :
               /\ briefsTable[j] = [id |-> insertionSummaries[j].brief,
                                    row |-> briefRow(briefs[j], generateEmbedding(briefs[j]))]
               /\ Len(StoriesOf(briefsTable[j].id)) = Len(briefs[j].f["user_stories"].l)
          /\ IF log[p].op = "insertStories"
             THEN /\ Len(briefsTable) = i
                  /\ briefsTable[i].id = briefId
                  /\ briefsTable[i].row = briefRow(briefs[i], generateEmbedding(briefs[i]))
                  /\ StoriesOf(briefId) = <<>>
             ELSE Len(briefsTable) = i - 1

C10_Witness ==
  /\ cpc = "exit"
  /\ Len(log) = 6
  /\ log[6] = Event("insertStories", 2, FALSE)
  /\ Len(briefs[2].f["user_stories"].l) = 2
  /\ Len(briefsTable) = 2
  /\ Len(storiesTable) = 2
====
